---- MODULE Spec2Model ----
(***************************************************************************)
(* Hybrid persistence and sync subsystem of zachapp-backend:               *)
(* database_manager.py (primary store, MySQL), the four hybrid managers    *)
(* (secondary store, JSON files) and sync_manager.py (ledger, reconcile).  *)
(*                                                                         *)
(* Every manager call is one atomic action.  The state the code keeps in   *)
(* files (users.json, sessions.json, verification.json, reset_tokens.json, *)
(* sync_tracking.json) and in the database survives Restart; the fields of *)
(* the module-level singletons db_manager and sync_manager do not.         *)
(***************************************************************************)
EXTENDS Integers, Sequences, FiniteSets, TLC

\* ---------------------------------------------------------------- bounds
MaxTicks == 2
MaxTokens == 2

\* ---------------------------------------------------- program constants
SessionRenewal == 3600
DefaultSessionDuration == 3600
PeriodicInterval == 300
SecondsPerHour == 3600
ResetExpiryHours == 1
VerificationExpiryHours == 24
StartTime == 7200

\* --------------------------------------------------------- input domains
Usernames == {"alice", "bob"}
Emails == {"a@x", "b@x", "c@x"}
Passwords == {"pw1", "pw2"}
DbStates == {"up", "fault", "down"}
Threads == {"t1", "t2"}

NoUser == [username |-> "", email |-> "", password |-> <<"none">>]
NoToken == 0
NoReset == [username |-> "", email |-> "", expiry |-> 0]

VARIABLES
    db,                 \* environment: "up" reachable, "fault" reachable but statements raise Error, "down" unreachable
    now,                \* environment: int(time.time())
    is_connected,       \* db_manager.is_connected
    fallback_to_json,   \* db_manager.fallback_to_json
    dbUsers,            \* table users
    dbSessions,         \* table sessions
    dbVerification,     \* table verification_tokens
    dbResetTokens,      \* table reset_tokens
    users_json,         \* users.json, an ordered dict: sequence of records in insertion order
    sessions_json,      \* sessions.json: username -> [token, expiry]
    verification_json,  \* verification.json: username -> [token, expiry, verified, email]
    reset_tokens_json,  \* reset_tokens.json: token -> [username, email, expiry]
    sync_tracking,      \* sync_tracking.json: last_sync and the four synced_* key sets
    last_db_status,     \* sync_manager.last_db_status
    sync_in_progress,   \* sync_manager.sync_in_progress
    nextTok,            \* number of tokens secrets.token_hex has produced so far
    pc,                 \* per thread, where its sync_all_data call stands
    ret,                \* the last call: its name, arguments and return value
    hist                \* facts about earlier calls that the properties refer to

vars == <<db, now, is_connected, fallback_to_json, dbUsers, dbSessions,
          dbVerification, dbResetTokens, users_json, sessions_json,
          verification_json, reset_tokens_json, sync_tracking,
          last_db_status, sync_in_progress, nextTok, pc, ret, hist>>

\* ------------------------------------------------------------- helpers
Put(f, k, v) == [x \in (DOMAIN f) \cup {k} |-> IF x = k THEN v ELSE f[x]]

Del(f, k) == [x \in (DOMAIN f) \ {k} |-> f[x]]

EmptyMap == [x \in {} |-> 0]

Hash(p) == <<"sha256", p>>

\* str.lower() and SQL LOWER() on the usernames of the model.
Lower(u) == IF u \in {"Alice", "ALICE"} THEN "alice" ELSE u

\* username = %s under the case-insensitive collation that MySQL gives a
\* VARCHAR column by default.
SameName(a, b) == Lower(a) = Lower(b)

\* Python's None where a username is expected.
NoName == ""

DataTypes == {"synced_users", "synced_sessions", "synced_verification",
              "synced_reset_tokens"}

NoKeys == [d \in DataTypes |-> {}]

\* The program state a handler reads and writes, as one record.  rv is the
\* return value; ran, probed, sent and pushed record what the call did; hist
\* records what earlier calls did.
Cur ==
    [is_connected |-> is_connected, fallback_to_json |-> fallback_to_json,
     dbUsers |-> dbUsers, dbSessions |-> dbSessions,
     dbVerification |-> dbVerification, dbResetTokens |-> dbResetTokens,
     users_json |-> users_json, sessions_json |-> sessions_json,
     verification_json |-> verification_json,
     reset_tokens_json |-> reset_tokens_json,
     sync_tracking |-> sync_tracking, last_db_status |-> last_db_status,
     sync_in_progress |-> sync_in_progress, hist |-> hist,
     rv |-> TRUE, ran |-> FALSE, probed |-> FALSE, sent |-> FALSE,
     pushed |-> NoKeys, failed |-> NoKeys, skipped |-> NoKeys]

Install(S) ==
    /\ is_connected' = S.is_connected
    /\ fallback_to_json' = S.fallback_to_json
    /\ dbUsers' = S.dbUsers
    /\ dbSessions' = S.dbSessions
    /\ dbVerification' = S.dbVerification
    /\ dbResetTokens' = S.dbResetTokens
    /\ users_json' = S.users_json
    /\ sessions_json' = S.sessions_json
    /\ verification_json' = S.verification_json
    /\ reset_tokens_json' = S.reset_tokens_json
    /\ sync_tracking' = S.sync_tracking
    /\ last_db_status' = S.last_db_status
    /\ sync_in_progress' = S.sync_in_progress
    /\ hist' = S.hist

\* ---------------------------------------------------- database_manager
is_database_available(S) == S.is_connected /\ ~S.fallback_to_json

\* execute_query reaches the server: not in fallback mode, and get_connection
\* returns a live handle (the cached one or a fresh reconnect).
CanReach(S) == ~S.fallback_to_json /\ db # "down"

\* execute_query runs the statement without an Error.
CanExec(S) == CanReach(S) /\ db = "up"

\* The DatabaseManager after an execute_query call: a reconnect that fails
\* sets fallback_to_json; a reconnect that succeeds sets is_connected.
AfterQuery(S) ==
    IF S.fallback_to_json THEN S
    ELSE IF db = "down" THEN [S EXCEPT !.fallback_to_json = TRUE]
    ELSE [S EXCEPT !.is_connected = TRUE]

\* get_connection: the cached handle when it is alive, else _test_connection,
\* which sets is_connected when it connects and fallback_to_json when it
\* does not.  It does not look at fallback_to_json and never clears it.
get_connection(S) ==
    IF db = "down" THEN [S EXCEPT !.fallback_to_json = TRUE]
    ELSE [S EXCEPT !.is_connected = TRUE]

\* INSERT INTO users ... ON DUPLICATE KEY UPDATE email, password_hash.
\* users has UNIQUE(username) and UNIQUE(email).  Result <<ok, table>>.
UpsertUser(tbl, u, e, h) ==
    LET byName == {r \in tbl : SameName(r.username, u)}
        byEmail == {r \in tbl : r.email = e}
        new == [username |-> u, email |-> e, password_hash |-> h]
    IN  IF byName # {}
        THEN IF \E r \in byEmail : ~SameName(r.username, u)
             THEN <<FALSE, tbl>>
             ELSE <<TRUE, (tbl \ byName) \cup
                          {[r EXCEPT !.email = e, !.password_hash = h]
                           : r \in byName}>>
        ELSE IF byEmail # {}
        THEN <<TRUE, (tbl \ byEmail) \cup
                     {[r EXCEPT !.password_hash = h] : r \in byEmail}>>
        ELSE <<TRUE, tbl \cup {new}>>

\* INSERT INTO sessions ... ON DUPLICATE KEY UPDATE expiry.  UNIQUE(token).
UpsertSession(tbl, u, t, x) ==
    IF \E r \in tbl : r.token = t
    THEN {IF r.token = t THEN [r EXCEPT !.expiry = x] ELSE r : r \in tbl}
    ELSE tbl \cup {[username |-> u, token |-> t, expiry |-> x]}

\* INSERT INTO verification_tokens ... ON DUPLICATE KEY UPDATE token, expiry,
\* verified.  UNIQUE(token).
UpsertVerification(tbl, u, e, t, x, v) ==
    IF \E r \in tbl : r.token = t
    THEN {IF r.token = t THEN [r EXCEPT !.expiry = x, !.verified = v] ELSE r
          : r \in tbl}
    ELSE tbl \cup {[username |-> u, email |-> e, token |-> t, expiry |-> x,
                    verified |-> v]}

\* INSERT INTO reset_tokens ... ON DUPLICATE KEY UPDATE token, expiry.
UpsertResetToken(tbl, u, e, t, x) ==
    IF \E r \in tbl : r.token = t
    THEN {IF r.token = t THEN [r EXCEPT !.expiry = x] ELSE r : r \in tbl}
    ELSE tbl \cup {[username |-> u, email |-> e, token |-> t, expiry |-> x]}

\* ------------------------------------------------------------ users.json
UJHas(seq, u) == \E i \in 1..Len(seq) : seq[i].username = u

UJGet(seq, u) ==
    IF UJHas(seq, u)
    THEN seq[CHOOSE i \in 1..Len(seq) : seq[i].username = u]
    ELSE NoUser

\* users[username] = {...}: an existing key keeps its position, a new key
\* goes last.
UJPut(seq, rec) ==
    IF UJHas(seq, rec.username)
    THEN [i \in 1..Len(seq) |->
            IF seq[i].username = rec.username THEN rec ELSE seq[i]]
    ELSE Append(seq, rec)

UJDel(seq, u) == SelectSeq(seq, LAMBDA r : r.username # u)

\* --------------------------------------------------------- sync_manager
_mark_as_synced(S, data_type, key) ==
    [S EXCEPT !.sync_tracking[data_type] = @ \cup {key}]

\* A push whose execute_database_query returned a truthy result.
PushOk(S, data_type, key) ==
    [_mark_as_synced(S, data_type, key) EXCEPT
        !.pushed[data_type] = @ \cup {key}]

\* An expired entry that is passed over without a mark in the ledger.
SkippedUnmarked(S, data_type, key) ==
    [S EXCEPT !.skipped[data_type] = @ \cup {key}]

\* An entry found expired: marked in the ledger, no statement is sent.
PushSkipped(S, data_type, key) ==
    [_mark_as_synced(S, data_type, key) EXCEPT
        !.skipped[data_type] = @ \cup {key}]

\* A failed push that marks the entry all the same.
PushDropped(S, data_type, key) ==
    [_mark_as_synced(S, data_type, key) EXCEPT
        !.failed[data_type] = @ \cup {key}]

\* A push whose execute_database_query returned None.
PushFailed(S, data_type, key) == [S EXCEPT !.failed[data_type] = @ \cup {key}]

\* A selection that ignores the ledger.
AllEntries(S, data_type, keys) == keys

\* _get_unsynced_entries: the keys of the JSON file that the ledger lacks.
_get_unsynced_entries(S, data_type, keys) ==
    {k \in keys : k \notin S.sync_tracking[data_type]}

_should_periodic_sync(S) == (now - S.sync_tracking.last_sync) > PeriodicInterval

\* The loop of sync_users over the unsynced entries, in file order.
RECURSIVE SyncUsersLoop(_, _)
SyncUsersLoop(S, todo) ==
    IF todo = << >> THEN S
    ELSE LET user_data == Head(todo)
             S1 == AfterQuery(S)
             res == UpsertUser(S.dbUsers, user_data.username,
                               user_data.email, user_data.password)
             S2 == IF CanExec(S) /\ res[1]
                   THEN PushOk([S1 EXCEPT !.dbUsers = res[2],
                                   !.hist.last_push.users =
                                       Put(@, user_data.username, user_data)],
                               "synced_users", user_data.username)
                   ELSE PushFailed(S1, "synced_users", user_data.username)
         IN  SyncUsersLoop(S2, Tail(todo))

sync_users(S) ==
    LET unsynced_users == _get_unsynced_entries(S, "synced_users",
            {S.users_json[i].username : i \in 1..Len(S.users_json)})
    IN  SyncUsersLoop(S, SelectSeq(S.users_json,
            LAMBDA r : r.username \in unsynced_users))

\* sync_sessions: an entry with expiry <= now is marked without a push; the
\* pushes are independent of each other (UNIQUE(token) only).
RECURSIVE SyncSessionsLoop(_, _)
SyncSessionsLoop(S, todo) ==
    IF todo = {} THEN S
    ELSE LET username == CHOOSE k \in todo : TRUE
             session_data == S.sessions_json[username]
             S1 == AfterQuery(S)
             S2 == IF session_data.expiry <= now
                   THEN PushSkipped(S, "synced_sessions", username)
                   ELSE IF CanExec(S)
                   THEN PushOk(
                            [S1 EXCEPT !.dbSessions = UpsertSession(@, username,
                                session_data.token, session_data.expiry),
                                !.hist.last_push.sessions =
                                    Put(@, username, session_data)],
                            "synced_sessions", username)
                   ELSE PushFailed(S1, "synced_sessions", username)
         IN  SyncSessionsLoop(S2, todo \ {username})

sync_sessions(S) ==
    SyncSessionsLoop(S, _get_unsynced_entries(S, "synced_sessions",
                                              DOMAIN S.sessions_json))

RECURSIVE SyncVerificationLoop(_, _)
SyncVerificationLoop(S, todo) ==
    IF todo = {} THEN S
    ELSE LET username == CHOOSE k \in todo : TRUE
             token_data == S.verification_json[username]
             S1 == AfterQuery(S)
             S2 == IF token_data.expiry <= now
                   THEN PushSkipped(S, "synced_verification", username)
                   ELSE IF CanExec(S)
                   THEN PushOk(
                            [S1 EXCEPT !.dbVerification = UpsertVerification(@,
                                username, token_data.email, token_data.token,
                                token_data.expiry, token_data.verified)],
                            "synced_verification", username)
                   ELSE PushFailed(S1, "synced_verification", username)
         IN  SyncVerificationLoop(S2, todo \ {username})

sync_verification_tokens(S) ==
    SyncVerificationLoop(S, _get_unsynced_entries(S, "synced_verification",
                                                  DOMAIN S.verification_json))

RECURSIVE SyncResetLoop(_, _)
SyncResetLoop(S, todo) ==
    IF todo = {} THEN S
    ELSE LET token == CHOOSE k \in todo : TRUE
             token_data == S.reset_tokens_json[token]
             S1 == AfterQuery(S)
             S2 == IF token_data.expiry <= now
                   THEN PushSkipped(S, "synced_reset_tokens", token)
                   ELSE IF CanExec(S)
                   THEN PushOk(
                            [S1 EXCEPT !.dbResetTokens = UpsertResetToken(@,
                                token_data.username, token_data.email, token,
                                token_data.expiry)],
                            "synced_reset_tokens", token)
                   ELSE PushFailed(S1, "synced_reset_tokens", token)
         IN  SyncResetLoop(S2, todo \ {token})

sync_reset_tokens(S) ==
    SyncResetLoop(S, _get_unsynced_entries(S, "synced_reset_tokens",
                                           DOMAIN S.reset_tokens_json))

\* sync_all_data: rv is the return value, ran tells that a pass was run.
\* Each sync_* returns True unless a file operation raises, so success
\* stays True.
sync_all_data(S) ==
    IF S.sync_in_progress THEN [S EXCEPT !.rv = TRUE]
    ELSE IF ~is_database_available(S) THEN [S EXCEPT !.rv = FALSE]
    ELSE LET S4 == sync_reset_tokens(sync_verification_tokens(
                       sync_sessions(sync_users(
                           [S EXCEPT !.sync_in_progress = TRUE]))))
         IN  [S4 EXCEPT !.sync_tracking.last_sync = now,
                        !.sync_in_progress = FALSE,
                        !.rv = TRUE, !.ran = TRUE]

\* check_and_sync: probed is the availability value read at its first line.
check_and_sync(S) ==
    LET current_db_status == is_database_available(S)
        P == [S EXCEPT !.probed = current_db_status]
    IN  IF current_db_status /\ ~S.last_db_status
        THEN sync_all_data(P)
        ELSE IF current_db_status /\ _should_periodic_sync(S)
        THEN sync_all_data(P)
        ELSE [P EXCEPT !.last_db_status = current_db_status, !.rv = TRUE]

clear_sync_tracking(S) ==
    [S EXCEPT !.sync_tracking =
        [last_sync |-> 0, synced_users |-> {}, synced_sessions |-> {},
         synced_verification |-> {}, synced_reset_tokens |-> {}]]

\* -------------------------------------------------- hybrid_user_manager
\* get_user_from_db: SELECT * FROM users WHERE username = %s.
get_user_from_db(S, username) ==
    IF is_database_available(S) /\ CanExec(S)
    THEN {r \in S.dbUsers : SameName(r.username, username)}
    ELSE {}

get_user_by_email_from_db(S, email) ==
    IF is_database_available(S) /\ CanExec(S)
    THEN {r \in S.dbUsers : r.email = email}
    ELSE {}

FromRow(rows) ==
    LET user == CHOOSE r \in rows : TRUE
    IN  [username |-> user.username, email |-> user.email,
         password |-> user.password_hash]

\* The DatabaseManager after a manager method that queries the database
\* when is_database_available() holds.
AfterRead(S) == IF is_database_available(S) THEN AfterQuery(S) ELSE S

\* A lookup that answers from users.json before the database.
SecondaryFirst(S, username) ==
    IF UJHas(S.users_json, username)
    THEN UJGet(S.users_json, username)
    ELSE IF get_user_from_db(S, username) # {}
    THEN FromRow(get_user_from_db(S, username))
    ELSE NoUser

get_user(S, username) ==
    IF get_user_from_db(S, username) # {}
    THEN FromRow(get_user_from_db(S, username))
    ELSE UJGet(S.users_json, username)

get_user_by_email(S, email) ==
    IF get_user_by_email_from_db(S, email) # {}
    THEN FromRow(get_user_by_email_from_db(S, email))
    ELSE IF \E i \in 1..Len(S.users_json) : S.users_json[i].email = email
    THEN S.users_json[CHOOSE i \in 1..Len(S.users_json) :
            /\ S.users_json[i].email = email
            /\ \A j \in 1..(i - 1) : S.users_json[j].email # email]
    ELSE NoUser

validate_user(S, username, password) ==
    LET user == get_user(S, username)
    IN  user # NoUser /\ user.password = Hash(password)

\* SELECT ... WHERE LOWER(username) = LOWER(%s), else the first entry of
\* users.json whose key lowers to the same string.
get_user_case_insensitive(S, username) ==
    LET rows == IF is_database_available(S) /\ CanExec(S)
                THEN {r \in S.dbUsers : Lower(r.username) = Lower(username)}
                ELSE {}
        username_lower == Lower(username)
        hits == {i \in 1..Len(S.users_json) :
                    Lower(S.users_json[i].username) = username_lower}
    IN  IF rows # {} THEN FromRow(rows)
        ELSE IF hits # {}
        THEN S.users_json[CHOOSE i \in hits : \A j \in hits : i <= j]
        ELSE NoUser

\* The result is the pair (is_valid, actual_username).
validate_user_case_insensitive(S, username, password) ==
    LET user == get_user_case_insensitive(S, username)
        password_hash == Hash(password)
        is_valid == user.password = password_hash
        actual_username == IF is_valid THEN user.username ELSE NoName
    IN  IF user = NoUser THEN <<FALSE, NoName>>
        ELSE <<is_valid, actual_username>>

save_user(S, username, email, password) ==
    LET password_hash == Hash(password)
        S1 == check_and_sync(S)
        res == UpsertUser(S1.dbUsers, username, email, password_hash)
        success == is_database_available(S1) /\ CanExec(S1) /\ res[1]
        S2 == AfterRead(S1)
        S3 == [S2 EXCEPT !.users_json = UJPut(@,
                  [username |-> username, email |-> email,
                   password |-> password_hash])]
    IN  IF success
        THEN [S2 EXCEPT !.dbUsers = res[2], !.rv = TRUE]
        ELSE [check_and_sync(S3) EXCEPT !.rv = TRUE]

\* save_user when open(users_file, 'w') fails in _save_users_to_json: nothing
\* catches the OSError, so the call ends there, after the first
\* check_and_sync and the attempt on the primary, with users.json as it was.
save_user_raises(S, username, email, password) ==
    AfterRead(check_and_sync(S))

\* Whether save_user returns from its primary branch.
save_user_to_db_succeeds(S, username, email, password) ==
    LET S1 == check_and_sync(S)
        res == UpsertUser(S1.dbUsers, username, email, Hash(password))
    IN  is_database_available(S1) /\ CanExec(S1) /\ res[1]

\* UPDATE users SET password_hash = %s WHERE username = %s: execute_query
\* returns True also when no row matches.
update_user_password(S, username, new_password) ==
    LET password_hash == Hash(new_password)
        result == is_database_available(S) /\ CanExec(S)
        S1 == AfterRead(S)
    IN  IF result
        THEN [S1 EXCEPT !.dbUsers =
                 {IF SameName(r.username, username)
                  THEN [r EXCEPT !.password_hash = password_hash] ELSE r
                  : r \in @},
                 !.rv = TRUE]
        ELSE IF UJHas(S1.users_json, username)
        THEN [S1 EXCEPT !.users_json = UJPut(@,
                 [UJGet(S1.users_json, username) EXCEPT
                     !.password = password_hash]),
                 !.rv = TRUE]
        ELSE [S1 EXCEPT !.rv = FALSE]

\* A delete that also takes the username out of the ledger.
DeleteUnmarks(S, username) ==
    [S EXCEPT !.users_json = UJDel(@, username),
              !.sync_tracking.synced_users = @ \ {username},
              !.rv = TRUE]

\* DELETE FROM users WHERE username = %s.
delete_user(S, username) ==
    LET result == is_database_available(S) /\ CanExec(S)
        S1 == AfterRead(S)
    IN  IF result
        THEN [S1 EXCEPT !.dbUsers =
                            {r \in @ : ~SameName(r.username, username)},
                        !.rv = TRUE]
        ELSE IF UJHas(S1.users_json, username)
        THEN [S1 EXCEPT !.users_json = UJDel(@, username), !.rv = TRUE]
        ELSE [S1 EXCEPT !.rv = FALSE]

\* ----------------------------------------------- hybrid_session_manager
\* get_session_from_db: WHERE username = %s AND token = %s AND expiry > NOW().
get_session_from_db(S, username, token) ==
    IF is_database_available(S) /\ CanExec(S)
    THEN {r \in S.dbSessions :
            r.username = username /\ r.token = token /\ r.expiry > now}
    ELSE {}

create_session(S, username, duration, token) ==
    LET expiry == now + duration
        S1 == check_and_sync(S)
        success == is_database_available(S1) /\ CanExec(S1)
        S2 == AfterRead(S1)
        S3 == [S2 EXCEPT !.sessions_json = Put(@, username,
                  [token |-> token, expiry |-> expiry])]
    IN  IF success
        THEN [S2 EXCEPT !.dbSessions = UpsertSession(@, username, token, expiry),
                        !.rv = token]
        ELSE [check_and_sync(S3) EXCEPT !.rv = token]

\* A validation that answers and leaves the expiry as it is.
ValidateNoSlide(S, username, token) ==
    IF is_database_available(S)
    THEN [AfterRead(S) EXCEPT
             !.rv = get_session_from_db(S, username, token) # {}]
    ELSE [S EXCEPT !.rv = /\ username \in DOMAIN S.sessions_json
                          /\ S.sessions_json[username].token = token
                          /\ S.sessions_json[username].expiry > now]

validate_session(S, username, token) ==
    LET current_time == now
        S1 == AfterRead(S)
    IN  IF is_database_available(S)
        THEN IF get_session_from_db(S, username, token) # {}
             THEN [S1 EXCEPT !.dbSessions = UpsertSession(@, username, token,
                                 current_time + SessionRenewal),
                             !.rv = TRUE]
             ELSE [S1 EXCEPT !.rv = FALSE]
        ELSE IF username \in DOMAIN S.sessions_json
        THEN IF /\ S.sessions_json[username].token = token
                /\ S.sessions_json[username].expiry > current_time
             THEN [S EXCEPT !.sessions_json[username].expiry =
                                current_time + SessionRenewal,
                            !.rv = TRUE]
             ELSE [S EXCEPT !.sessions_json = Del(@, username), !.rv = FALSE]
        ELSE [S EXCEPT !.rv = FALSE]

\* delete_session_from_db: DELETE ... WHERE username = %s AND token = %s,
\* or WHERE username = %s when token is None.
end_session(S, username, token) ==
    LET success == is_database_available(S) /\ CanExec(S)
        S1 == AfterRead(S)
    IN  IF success
        THEN [S1 EXCEPT !.dbSessions = {r \in @ :
                 ~(r.username = username /\ (token = NoToken \/ r.token = token))},
                 !.rv = TRUE]
        ELSE IF /\ username \in DOMAIN S1.sessions_json
                /\ (token = NoToken \/ S1.sessions_json[username].token = token)
        THEN [S1 EXCEPT !.sessions_json = Del(@, username), !.rv = TRUE]
        ELSE [S1 EXCEPT !.rv = FALSE]

\* ---------------------------------------- hybrid_password_reset_manager
\* get_reset_token_from_db: WHERE token = %s AND expiry > NOW().
get_reset_token_from_db(S, token) ==
    IF is_database_available(S) /\ CanExec(S)
    THEN {r \in S.dbResetTokens : r.token = token /\ r.expiry > now}
    ELSE {}

ResetData(r) == [username |-> r.username, email |-> r.email, expiry |-> r.expiry]

validate_reset_token(S, token) ==
    LET current_time == now
        S1 == AfterRead(S)
    IN  IF is_database_available(S)
        THEN IF get_reset_token_from_db(S, token) # {}
             THEN [S1 EXCEPT !.rv = ResetData(
                      CHOOSE r \in get_reset_token_from_db(S, token) : TRUE)]
             ELSE [S1 EXCEPT !.rv = NoReset]
        ELSE IF token \in DOMAIN S.reset_tokens_json
        THEN IF S.reset_tokens_json[token].expiry > current_time
             THEN [S EXCEPT !.rv = ResetData(S.reset_tokens_json[token])]
             ELSE [S EXCEPT !.reset_tokens_json = Del(@, token),
                            !.rv = NoReset]
        ELSE [S EXCEPT !.rv = NoReset]

_delete_reset_token(S, token) ==
    LET success == is_database_available(S) /\ CanExec(S)
        S1 == AfterRead(S)
    IN  IF success
        THEN [S1 EXCEPT !.dbResetTokens = {r \in @ : r.token # token}]
        ELSE [S1 EXCEPT !.reset_tokens_json = Del(@, token)]

\* A reset that deletes the token before it updates the password.
ResetDeletesFirst(S, token, new_password) ==
    LET S1 == validate_reset_token(S, token)
        token_data == S1.rv
        S2 == update_user_password(_delete_reset_token(S1, token),
                                   token_data.username, new_password)
    IN  IF token_data = NoReset THEN [S1 EXCEPT !.rv = FALSE]
        ELSE S2

reset_password(S, token, new_password) ==
    LET S1 == validate_reset_token(S, token)
        token_data == S1.rv
        S2 == update_user_password(S1, token_data.username, new_password)
    IN  IF token_data = NoReset THEN [S1 EXCEPT !.rv = FALSE]
        ELSE IF S2.rv
        THEN [_delete_reset_token(S2, token) EXCEPT !.rv = TRUE]
        ELSE [S2 EXCEPT !.rv = FALSE]

\* sent: send_reset_email was called.
generate_reset_token(S, username_or_email, expiry_hours, token) ==
    LET S0 == AfterRead(S)
        byName == get_user(S, username_or_email)
        user == IF byName # NoUser THEN byName
                ELSE get_user_by_email(S0, username_or_email)
        Sa == IF byName # NoUser THEN S0 ELSE AfterRead(S0)
        expiry == now + (expiry_hours * SecondsPerHour)
        S1 == check_and_sync(Sa)
        success == is_database_available(S1) /\ CanExec(S1)
        S2 == AfterRead(S1)
        S3 == [S2 EXCEPT !.reset_tokens_json = Put(@, token,
                  [username |-> user.username, email |-> user.email,
                   expiry |-> expiry])]
        S4 == check_and_sync(S3)
    IN  IF user = NoUser THEN [Sa EXCEPT !.rv = NoToken]
        ELSE IF success
        THEN [S2 EXCEPT !.dbResetTokens = UpsertResetToken(@, user.username,
                            user.email, token, expiry),
                        !.rv = token]
        ELSE [S4 EXCEPT !.rv = token, !.sent = is_database_available(S4)]

\* ------------------------------------------ hybrid_verification_manager
\* get_verification_token_from_db: WHERE token = %s AND expiry > NOW().
get_verification_token_from_db(S, token) ==
    IF is_database_available(S) /\ CanExec(S)
    THEN {r \in S.dbVerification : r.token = token /\ r.expiry > now}
    ELSE {}

\* is_user_verified_in_db: WHERE username = %s AND verified = TRUE.
is_user_verified_in_db(S, username) ==
    /\ is_database_available(S) /\ CanExec(S)
    /\ \E r \in S.dbVerification : r.username = username /\ r.verified

\* sent: send_verification_email was called.
generate_verification_token(S, username, email, expiry_hours, token) ==
    LET expiry == now + (expiry_hours * SecondsPerHour)
        S1 == check_and_sync(S)
        success == is_database_available(S1) /\ CanExec(S1)
        S2 == AfterRead(S1)
        S3 == [S2 EXCEPT !.verification_json = Put(@, username,
                  [token |-> token, expiry |-> expiry, verified |-> FALSE,
                   email |-> email])]
    IN  IF success
        THEN [S2 EXCEPT !.dbVerification = UpsertVerification(@, username,
                            email, token, expiry, FALSE),
                        !.rv = token]
        ELSE [check_and_sync(S3) EXCEPT !.rv = token, !.sent = TRUE]

verify_email(S, username, token) ==
    LET current_time == now
        S1 == AfterRead(S)
        token_data == get_verification_token_from_db(S, token)
    IN  IF is_database_available(S)
        THEN IF token_data # {} /\ \A r \in token_data : r.username = username
             THEN [S1 EXCEPT !.dbVerification =
                      {IF r.token = token THEN [r EXCEPT !.verified = TRUE]
                       ELSE r : r \in @},
                      !.rv = TRUE]
             ELSE [S1 EXCEPT !.rv = FALSE]
        ELSE IF username \in DOMAIN S.verification_json
        THEN IF /\ S.verification_json[username].token = token
                /\ S.verification_json[username].expiry > current_time
                /\ ~S.verification_json[username].verified
             THEN [S EXCEPT !.verification_json[username].verified = TRUE,
                            !.rv = TRUE]
             ELSE [S EXCEPT !.rv = FALSE]
        ELSE [S EXCEPT !.rv = FALSE]

is_verified(S, username) ==
    IF is_database_available(S)
    THEN [AfterRead(S) EXCEPT !.rv = is_user_verified_in_db(S, username)]
    ELSE [S EXCEPT !.rv =
            /\ username \in DOMAIN S.verification_json
            /\ S.verification_json[username].expiry > now
            /\ S.verification_json[username].verified]

\* cleanup_expired_tokens of the verification manager: DELETE FROM
\* verification_tokens WHERE expiry < NOW() when the primary is available,
\* else the entries of verification.json with expiry <= current_time.
cleanup_expired_verification_tokens(S) ==
    LET current_time == now
    IN  IF is_database_available(S)
        THEN IF CanExec(S)
             THEN [AfterQuery(S) EXCEPT
                      !.dbVerification = {r \in @ : ~(r.expiry < now)}]
             ELSE AfterQuery(S)
        ELSE [S EXCEPT !.verification_json =
                 [k \in {u \in DOMAIN @ : ~(@[u].expiry <= current_time)}
                     |-> @[k]]]

\* DatabaseSignalMonitor._check_database_signal: "unavailable" at once when
\* is_database_available() is false, else get_database_connection().
_check_database_signal(S) ==
    IF ~is_database_available(S) THEN S ELSE get_connection(S)

\* ---------------------------------------------------------- the actions
NoFirst == [ran |-> FALSE, pushed |-> NoKeys, failed |-> NoKeys,
            primary |-> <<{}, {}, {}, {}>>, ledger |-> NoKeys]

\* hist.last_push: per username, the users.json and sessions.json entry that
\* the last successful push of the key carried to the primary.
NoHist == [last_push |-> [users |-> EmptyMap, sessions |-> EmptyMap],
           used |-> {}, ended |-> {},
           pw |-> [u \in Usernames |-> ""], first |-> NoFirst,
           verified |-> {}, deleted |-> {}]

\* DatabaseManager.__init__ and SyncManager.__init__ of a fresh process:
\* _test_connection connects or sets fallback_to_json; the ledger is loaded
\* from sync_tracking.json.
Startup ==
    /\ is_connected' = (db # "down")
    /\ fallback_to_json' = (db = "down")
    /\ last_db_status' = FALSE
    /\ sync_in_progress' = FALSE

NoCall == [op |-> "none", user |-> "", pw |-> "", tok |-> NoToken,
           rv |-> TRUE, sent |-> FALSE, ran |-> FALSE, probed |-> FALSE,
           pushed |-> NoKeys, failed |-> NoKeys, skipped |-> NoKeys,
           reach |-> FALSE, prev |-> FALSE, recent |-> FALSE,
           at |-> 0, expiry |-> 0, prior |-> [at |-> 0, expiry |-> 0],
           store |-> "", left |-> FALSE, was |-> FALSE, good |-> FALSE,
           name |-> NoName, raised |-> FALSE, disk |-> ""]

InitIn(states) ==
    /\ db \in states
    /\ now = StartTime
    /\ is_connected = (db # "down")
    /\ fallback_to_json = (db = "down")
    /\ last_db_status = FALSE
    /\ sync_in_progress = FALSE
    /\ dbUsers = {} /\ dbSessions = {} /\ dbVerification = {}
    /\ dbResetTokens = {}
    /\ users_json = << >>
    /\ sessions_json = EmptyMap
    /\ verification_json = EmptyMap
    /\ reset_tokens_json = EmptyMap
    /\ sync_tracking = clear_sync_tracking([sync_tracking |-> 0]).sync_tracking
    /\ nextTok = 0
    /\ pc = [t \in Threads |-> "idle"]
    /\ ret = NoCall
    /\ hist = NoHist

Init == InitIn(DbStates)

\* The last call, as the properties see it.  For a call of the sync manager
\* itself, what the pass did is kept: ran, probed, pushed, failed, skipped, and reach,
\* which tells whether a statement could run when the call started; prev
\* tells that the call before it was a check_and_sync of the same process that
\* probed the primary available, recent that the call started within
\* PeriodicInterval seconds of last_sync.
SyncOps == {"check_and_sync", "sync_all_data"}

Ret(op, u, p, t, S) ==
    IF op \in SyncOps
    THEN [op |-> op, user |-> u, pw |-> p, tok |-> t, rv |-> S.rv,
          sent |-> S.sent, ran |-> S.ran, probed |-> S.probed,
          pushed |-> S.pushed, failed |-> S.failed, skipped |-> S.skipped,
          reach |-> CanExec(Cur),
          prev |-> (ret.op = "check_and_sync" /\ ret.probed),
          recent |-> ~_should_periodic_sync(Cur)]
    ELSE [NoCall EXCEPT !.op = op, !.user = u, !.pw = p, !.tok = t,
                        !.rv = S.rv, !.sent = S.sent]

Call(op, u, p, t, S) ==
    /\ Install([S EXCEPT !.hist.first =
                   IF op = "sync_all_data" THEN @ ELSE NoFirst])
    /\ ret' = Ret(op, u, p, t, S)
    /\ UNCHANGED <<db, now, pc>>

\* A validation of a credential: its name, user and result are kept.
Check(op, u, S) ==
    /\ Install([S EXCEPT !.hist.first = NoFirst])
    /\ ret' = [NoCall EXCEPT !.op = op, !.user = u, !.rv = S.rv]
    /\ UNCHANGED <<db, now, nextTok, pc>>

\* A read: only its effect on the DatabaseManager is kept.
Read(op, S) ==
    /\ Install([S EXCEPT !.hist.first = NoFirst])
    /\ ret' = [NoCall EXCEPT !.op = op]
    /\ UNCHANGED <<db, now, nextTok, pc>>

Restart ==
    /\ Startup
    /\ ret' = [NoCall EXCEPT !.op = "restart"]
    /\ hist' = [hist EXCEPT !.first = NoFirst]
    /\ pc' = [t \in Threads |-> "idle"]
    /\ UNCHANGED <<db, now, dbUsers, dbSessions, dbVerification, dbResetTokens,
                   users_json, sessions_json, verification_json,
                   reset_tokens_json, sync_tracking, nextTok>>

\* The environment: the server becomes reachable, faulty or unreachable.
SetDb(v) ==
    /\ v # db
    /\ db' = v
    /\ UNCHANGED <<now, is_connected, fallback_to_json, dbUsers, dbSessions,
                   dbVerification, dbResetTokens, users_json, sessions_json,
                   verification_json, reset_tokens_json, sync_tracking,
                   last_db_status, sync_in_progress, nextTok, pc, hist, ret>>

\* The environment: d seconds pass.
Tick(d) ==
    /\ now + d <= StartTime + MaxTicks * d
    /\ now' = now + d
    /\ UNCHANGED <<db, is_connected, fallback_to_json, dbUsers, dbSessions,
                   dbVerification, dbResetTokens, users_json, sessions_json,
                   verification_json, reset_tokens_json, sync_tracking,
                   last_db_status, sync_in_progress, nextTok, pc, hist, ret>>

CheckAndSync ==
    /\ Call("check_and_sync", "", "", NoToken, check_and_sync(Cur))
    /\ UNCHANGED nextTok

\* hist.first: when this pass is the second of two in a row, what the first
\* pass pushed and failed to push, and the primary and the ledger's key sets
\* as it left them.
SyncAllData ==
    /\ LET S == sync_all_data(Cur)
       IN  Call("sync_all_data", "", "", NoToken,
                [S EXCEPT !.hist.first =
                    IF ret.op = "sync_all_data" /\ ret.ran /\ S.ran
                    THEN [ran |-> TRUE, pushed |-> ret.pushed,
                          failed |-> ret.failed,
                          primary |-> <<dbUsers, dbSessions, dbVerification,
                                        dbResetTokens>>,
                          ledger |-> [d \in DataTypes |-> sync_tracking[d]]]
                    ELSE NoFirst])
    /\ UNCHANGED nextTok

ClearSyncTracking ==
    /\ Call("clear_sync_tracking", "", "", NoToken, clear_sync_tracking(Cur))
    /\ UNCHANGED nextTok

\* sync_all_data called by thread t, statement by statement.  SyncEnter is
\* the test of sync_in_progress: the call returns True at once, or goes on.
SyncEnter(t) ==
    /\ pc[t] = "idle"
    /\ pc' = [pc EXCEPT ![t] = IF sync_in_progress THEN "idle" ELSE "tested"]
    /\ ret' = [NoCall EXCEPT !.op = "sync_all_data", !.user = t,
                             !.rv = sync_in_progress]
    /\ hist' = [hist EXCEPT !.first = NoFirst]
    /\ UNCHANGED <<db, now, is_connected, fallback_to_json, dbUsers,
                   dbSessions, dbVerification, dbResetTokens, users_json,
                   sessions_json, verification_json, reset_tokens_json,
                   sync_tracking, last_db_status, sync_in_progress, nextTok>>

\* The test of is_database_available() and the assignment
\* self.sync_in_progress = True.
SyncBegin(t) ==
    /\ pc[t] = "tested"
    /\ IF is_database_available(Cur)
       THEN sync_in_progress' = TRUE /\ pc' = [pc EXCEPT ![t] = "running"]
       ELSE sync_in_progress' = sync_in_progress /\ pc' = [pc EXCEPT ![t] = "idle"]
    /\ ret' = [NoCall EXCEPT !.op = "sync_all_data", !.user = t,
                             !.rv = is_database_available(Cur)]
    /\ UNCHANGED <<db, now, is_connected, fallback_to_json, dbUsers,
                   dbSessions, dbVerification, dbResetTokens, users_json,
                   sessions_json, verification_json, reset_tokens_json,
                   sync_tracking, last_db_status, nextTok, hist>>

\* The try block and the finally clause: the four sync_* calls, last_sync,
\* self.sync_in_progress = False.
SyncPass(t) ==
    /\ pc[t] = "running"
    /\ LET S4 == sync_reset_tokens(sync_verification_tokens(
                     sync_sessions(sync_users(Cur))))
           S == [S4 EXCEPT !.sync_tracking.last_sync = now,
                           !.sync_in_progress = FALSE,
                           !.rv = TRUE, !.ran = TRUE]
       IN  /\ Install(S)
           /\ ret' = [Ret("sync_all_data", t, "", NoToken, S) EXCEPT
                         !.prev = FALSE]
    /\ pc' = [pc EXCEPT ![t] = "idle"]
    /\ UNCHANGED <<db, now, nextTok>>

\* The first k of the four sync_* calls of a pass.
PassPrefix(S, k) ==
    LET S1 == IF k >= 1 THEN sync_users(S) ELSE S
        S2 == IF k >= 2 THEN sync_sessions(S1) ELSE S1
        S3 == IF k >= 3 THEN sync_verification_tokens(S2) ELSE S2
    IN  IF k >= 4 THEN sync_reset_tokens(S3) ELSE S3

\* An exit by exception that skips the reset of the flag.
SyncRaiseKeepsFlag(t, k) ==
    /\ pc[t] = "running"
    /\ Install(PassPrefix(Cur, k))
    /\ ret' = [NoCall EXCEPT !.op = "sync_all_data", !.user = t,
                             !.rv = FALSE, !.raised = TRUE]
    /\ pc' = [pc EXCEPT ![t] = "idle"]
    /\ UNCHANGED <<db, now, nextTok>>

\* The try block left by an exception after k of the sync_* calls, the
\* except clause (return False) and the finally clause:
\* self.sync_in_progress = False.  last_sync is not written.
SyncRaise(t, k) ==
    /\ pc[t] = "running"
    /\ Install([PassPrefix(Cur, k) EXCEPT !.sync_in_progress = FALSE])
    /\ ret' = [NoCall EXCEPT !.op = "sync_all_data", !.user = t,
                             !.rv = FALSE, !.raised = TRUE]
    /\ pc' = [pc EXCEPT ![t] = "idle"]
    /\ UNCHANGED <<db, now, nextTok>>

SaveUser(u, e, p) ==
    /\ Call("save_user", u, p, NoToken,
            [save_user(Cur, u, e, p) EXCEPT !.hist.pw[u] = "",
                                            !.hist.deleted = @ \ {u}])
    /\ UNCHANGED nextTok

\* save_user on a disk that takes the write of users.json (disk = "ok") or
\* refuses it (disk = "error").  ret.store: the store the call wrote or
\* tried to write; ret.raised: the call ended with an exception.
DiskStates == {"ok", "error"}

SaveUserOnDisk(u, e, p, disk) ==
    LET toJson == ~save_user_to_db_succeeds(Cur, u, e, p)
        raised == toJson /\ disk = "error"
        S == IF raised THEN save_user_raises(Cur, u, e, p)
             ELSE [save_user(Cur, u, e, p) EXCEPT !.hist.pw[u] = ""]
    IN  /\ Install([S EXCEPT !.hist.first = NoFirst,
                             !.hist.deleted = @ \ {u}])
        /\ ret' = [NoCall EXCEPT !.op = "save_user", !.user = u, !.pw = p,
                                 !.rv = IF raised THEN NoCall.rv ELSE S.rv,
                                 !.store = IF toJson THEN "json" ELSE "db",
                                 !.disk = disk, !.raised = raised]
        /\ UNCHANGED <<db, now, pc, nextTok>>

\* hist.pw[u]: the password of the last successful change for an account
\* that get_user found, until the account is saved or deleted again.
UpdateUserPassword(u, p) ==
    /\ LET S == update_user_password(Cur, u, p)
       IN  Call("update_user_password", u, p, NoToken,
                IF S.rv /\ get_user(Cur, u) # NoUser
                THEN [S EXCEPT !.hist.pw[u] = p] ELSE S)
    /\ UNCHANGED nextTok

\* hist.deleted: the usernames for which delete_user has returned true,
\* until save_user is called for the username again.
DeleteUser(u) ==
    /\ LET S == delete_user(Cur, u)
       IN  Call("delete_user", u, "", NoToken,
                [S EXCEPT !.hist.pw[u] = "",
                          !.hist.deleted = IF S.rv THEN @ \cup {u} ELSE @])
    /\ UNCHANGED nextTok

ValidateUser(u) == Read("validate_user", AfterRead(Cur))

\* ret.rv and ret.name are the two components of the result.
ValidateUserCaseInsensitive(u, p) ==
    /\ LET res == validate_user_case_insensitive(Cur, u, p)
       IN  /\ Install([AfterRead(Cur) EXCEPT !.hist.first = NoFirst])
           /\ ret' = [NoCall EXCEPT
                         !.op = "validate_user_case_insensitive",
                         !.user = u, !.pw = p, !.rv = res[1],
                         !.name = res[2],
                         !.store = IF is_database_available(Cur)
                                   THEN "db" ELSE "json"]
    /\ UNCHANGED <<db, now, nextTok, pc>>

\* secrets.token_hex(32): a token no earlier call has produced.
FreshToken == nextTok + 1

\* hist.ended: the sessions that end_session(username, token) ended with a
\* true result, until create_session is called for the username again.
CreateSession(u, duration) ==
    /\ nextTok < MaxTokens
    /\ Call("create_session", u, "", FreshToken,
            [create_session(Cur, u, duration, FreshToken) EXCEPT
                !.hist.ended = {x \in @ : x[1] # u}])
    /\ nextTok' = FreshToken

\* The expiry that the store which answers a validate_session call in state
\* S0 holds for the session in state S: the row of sessions, or the entry of
\* sessions.json.
AnsweredExpiry(S0, S, u, t) ==
    IF is_database_available(S0)
    THEN IF \E r \in S.dbSessions : r.username = u /\ r.token = t
         THEN (CHOOSE r \in S.dbSessions : r.username = u /\ r.token = t).expiry
         ELSE 0
    ELSE IF u \in DOMAIN S.sessions_json THEN S.sessions_json[u].expiry ELSE 0

\* Whether the store that answers a validate_session call in state S0 holds a
\* session record of the username in state S.
AnsweredHolds(S0, S, u) ==
    IF is_database_available(S0)
    THEN \E r \in S.dbSessions : r.username = u
    ELSE u \in DOMAIN S.sessions_json

\* ret.at is the time of the call, ret.store the store that answered,
\* ret.expiry the expiry that store holds after the call and ret.left whether
\* it then holds a session record of the username; ret.prior is at and expiry
\* of the call before it when that was a successful validate_session of the
\* same session.
ValidateSession(u, t) ==
    /\ LET S == validate_session(Cur, u, t)
       IN  /\ Install([S EXCEPT !.hist.first = NoFirst])
           /\ ret' = [NoCall EXCEPT
                         !.op = "validate_session", !.user = u, !.tok = t,
                         !.rv = S.rv, !.at = now,
                         !.expiry = AnsweredExpiry(Cur, S, u, t),
                         !.store = IF is_database_available(Cur)
                                   THEN "db" ELSE "json",
                         !.left = AnsweredHolds(Cur, S, u),
                         !.prior =
                             IF /\ ret.op = "validate_session" /\ ret.rv = TRUE
                                /\ ret.user = u /\ ret.tok = t
                             THEN [at |-> ret.at, expiry |-> ret.expiry]
                             ELSE @]
    /\ UNCHANGED <<db, now, nextTok, pc>>

EndSession(u, t) ==
    /\ LET S == end_session(Cur, u, t)
       IN  Call("end_session", u, "", t,
                IF S.rv /\ t # NoToken
                THEN [S EXCEPT !.hist.ended = @ \cup {<<u, t>>}] ELSE S)
    /\ UNCHANGED nextTok

GenerateResetToken(x) ==
    /\ nextTok < MaxTokens
    /\ Call("generate_reset_token", x, "", FreshToken,
            generate_reset_token(Cur, x, ResetExpiryHours, FreshToken))
    /\ nextTok' = FreshToken

ValidateResetToken(t) ==
    Check("validate_reset_token", "", validate_reset_token(Cur, t))

\* hist.used: the tokens for which reset_password returned true.  ret.good
\* tells that the token validated at the start of the call.
ResetPassword(t, p) ==
    /\ LET S == reset_password(Cur, t, p)
           u == validate_reset_token(Cur, t).rv.username
           T == IF S.rv
                THEN [S EXCEPT !.hist.used = @ \cup {t},
                               !.hist.pw[u] = IF get_user(Cur, u) # NoUser
                                              THEN p ELSE @]
                ELSE S
       IN  /\ Install([T EXCEPT !.hist.first = NoFirst])
           /\ ret' = [Ret("reset_password", u, p, t, T) EXCEPT
                         !.good = validate_reset_token(Cur, t).rv # NoReset]
    /\ UNCHANGED <<db, now, pc, nextTok>>

\* hist.verified: the usernames for which verify_email returned true and no
\* verification token was generated since.
GenerateVerificationToken(u, e) ==
    /\ nextTok < MaxTokens
    /\ Call("generate_verification_token", u, "", FreshToken,
            [generate_verification_token(Cur, u, e, VerificationExpiryHours,
                                         FreshToken)
                EXCEPT !.hist.verified = @ \ {u}])
    /\ nextTok' = FreshToken

\* Whether the store that answers verify_email in state S holds an unexpired
\* verification record of the username with this token.
HoldsToken(S, u, t) ==
    IF is_database_available(S)
    THEN \E r \in S.dbVerification :
            r.username = u /\ r.token = t /\ r.expiry > now
    ELSE /\ u \in DOMAIN S.verification_json
         /\ S.verification_json[u].token = t
         /\ S.verification_json[u].expiry > now

\* ret.was is what is_verified answered before the call, ret.good whether
\* the token was the one on record, ret.store the store that answered.
VerifyEmail(u, t) ==
    /\ LET S == verify_email(Cur, u, t)
       IN  /\ Install([S EXCEPT !.hist.first = NoFirst,
                                !.hist.verified =
                                    IF S.rv = TRUE THEN @ \cup {u} ELSE @])
           /\ ret' = [NoCall EXCEPT
                         !.op = "verify_email", !.user = u, !.tok = t,
                         !.rv = S.rv,
                         !.was = is_verified(Cur, u).rv,
                         !.good = HoldsToken(Cur, u, t),
                         !.store = IF is_database_available(Cur)
                                   THEN "db" ELSE "json",
                         !.reach = is_database_available(Cur) /\ CanExec(Cur)]
    /\ UNCHANGED <<db, now, nextTok, pc>>

IsVerified(u) == Read("is_verified", AfterRead(Cur))

GetDatabaseConnection ==
    Read("get_database_connection", get_connection(Cur))

CheckDatabaseSignal ==
    Read("_check_database_signal", _check_database_signal(Cur))

CleanupExpiredVerificationTokens ==
    Read("cleanup_expired_verification_tokens",
         cleanup_expired_verification_tokens(Cur))

\* ---------------------------------------------------- the specifications
Issued == 1..nextTok

\* Users: one account whose password changes.
NextUser ==
    \/ \E v \in DbStates : SetDb(v)
    \/ Restart
    \/ CheckAndSync
    \/ SyncAllData
    \/ \E p \in Passwords : SaveUser("alice", "a@x", p)
    \/ \E p \in Passwords : UpdateUserPassword("alice", p)
    \/ ValidateUser("alice")

SpecUser == Init /\ [][NextUser]_vars

\* Signup: two accounts and two addresses.
NextSignup ==
    \/ \E v \in DbStates : SetDb(v)
    \/ Restart
    \/ CheckAndSync
    \/ \E u \in Usernames, e \in {"a@x", "b@x"} : SaveUser(u, e, "pw1")

SpecSignup == Init /\ [][NextSignup]_vars

\* Reconcile passes over two accounts whose addresses change, with a server
\* that is reachable or not.
NextSync ==
    \/ \E v \in {"up", "down"} : SetDb(v)
    \/ Restart
    \/ SyncAllData
    \/ \E e \in {"a@x", "b@x"} : SaveUser("alice", e, "pw1")
    \/ \E e \in {"a@x", "c@x"} : SaveUser("bob", e, "pw1")

SpecSync == InitIn({"up", "down"}) /\ [][NextSync]_vars

\* Reconcile passes over two accounts, a session and reset tokens, with a
\* server whose statements run or raise an Error.
NextPass ==
    \/ \E v \in {"up", "fault"} : SetDb(v)
    \/ SyncAllData
    \/ \E e \in {"a@x", "b@x"} : SaveUser("alice", e, "pw1")
    \/ SaveUser("bob", "a@x", "pw1")
    \/ CreateSession("alice", DefaultSessionDuration)
    \/ GenerateResetToken("bob")

SpecPass == InitIn({"up", "fault"}) /\ [][NextPass]_vars

\* Reconcile passes over a session and tokens that expire, with a server
\* whose statements raise an Error until it recovers.
NextExpiry ==
    \/ SetDb("up")
    \/ Tick(VerificationExpiryHours * SecondsPerHour)
    \/ SyncAllData
    \/ SaveUser("alice", "a@x", "pw1")
    \/ CreateSession("alice", DefaultSessionDuration)
    \/ GenerateVerificationToken("alice", "a@x")
    \/ GenerateResetToken("alice")

SpecExpiry == InitIn({"fault"}) /\ [][NextExpiry]_vars

\* Two threads that call sync_all_data while accounts are saved.
NextThreads ==
    \/ \E v \in {"up", "fault"} : SetDb(v)
    \/ \E t \in Threads : SyncEnter(t)
    \/ \E t \in Threads : SyncBegin(t)
    \/ \E t \in Threads : SyncPass(t)
    \/ \E u \in Usernames : SaveUser(u, "a@x", "pw1")

SpecThreads == InitIn({"up", "fault"}) /\ [][NextThreads]_vars

\* The ledger under the calls of all managers, the checks, the passes and
\* clear_sync_tracking, across restarts.
NextLedger ==
    \/ \E v \in {"up", "fault"} : SetDb(v)
    \/ Restart
    \/ CheckAndSync
    \/ ClearSyncTracking
    \/ SaveUser("alice", "a@x", "pw1")
    \/ DeleteUser("alice")
    \/ CreateSession("alice", DefaultSessionDuration)
    \/ EndSession("alice", NoToken)
    \/ GenerateVerificationToken("alice", "a@x")
    \/ GenerateResetToken("alice")

SpecLedger == InitIn({"up", "fault"}) /\ [][NextLedger]_vars

\* Validations of the session of one account, seconds apart.
NextSlide ==
    \/ \E v \in {"up", "down"} : SetDb(v)
    \/ Tick(10)
    \/ Tick(SessionRenewal)
    \/ CreateSession("alice", DefaultSessionDuration)
    \/ \E t \in Issued : ValidateSession("alice", t)

SpecSlide == InitIn({"up", "down"}) /\ [][NextSlide]_vars

\* Verification of the address of one account, with right and wrong tokens.
NextVerify ==
    \/ \E v \in {"up", "down"} : SetDb(v)
    \/ Restart
    \/ Tick(VerificationExpiryHours * SecondsPerHour)
    \/ GenerateVerificationToken("alice", "a@x")
    \/ \E t \in 0..MaxTokens : VerifyEmail("alice", t)
    \/ IsVerified("alice")
    \/ CleanupExpiredVerificationTokens
    \/ CheckAndSync

SpecVerify == InitIn({"up", "down"}) /\ [][NextVerify]_vars

\* Password resets of an account that may have been deleted meanwhile.
NextRetry ==
    \/ \E v \in {"up", "down"} : SetDb(v)
    \/ SaveUser("alice", "a@x", "pw1")
    \/ DeleteUser("alice")
    \/ GenerateResetToken("alice")
    \/ \E t \in Issued : ResetPassword(t, "pw2")

SpecRetry == InitIn({"up", "down"}) /\ [][NextRetry]_vars

\* Logins under the case variants of a username.
CaseVariants == {"Alice", "ALICE", "alice"}

NextCase ==
    \/ \E v \in {"up", "down"} : SetDb(v)
    \/ Restart
    \/ CheckAndSync
    \/ SaveUser("Alice", "a@x", "pw1")
    \/ SaveUser("alice", "b@x", "pw2")
    \/ \E x \in CaseVariants \cup {"bob"}, p \in Passwords :
          ValidateUserCaseInsensitive(x, p)

SpecCase == InitIn({"up", "down"}) /\ [][NextCase]_vars

\* One process that keeps probing and querying while the server comes and
\* goes.
NextProbe ==
    \/ \E v \in {"up", "down"} : SetDb(v)
    \/ GetDatabaseConnection
    \/ CheckDatabaseSignal
    \/ CheckAndSync
    \/ \E p \in Passwords : SaveUser("alice", "a@x", p)
    \/ DeleteUser("alice")

\* The monitor thread probes every update_interval and the managers are
\* called again and again: no probe or query is put off forever.
\* What a probe or query can change of the connection, and which call ran.
probeVars == <<db, is_connected, fallback_to_json, ret.op>>

SpecProbe ==
    /\ InitIn({"up", "down"})
    /\ [][NextProbe]_vars
    /\ WF_probeVars(GetDatabaseConnection)
    /\ WF_probeVars(CheckDatabaseSignal)
    /\ WF_probeVars(CheckAndSync)
    /\ WF_probeVars(\E p \in Passwords : SaveUser("alice", "a@x", p))

\* Saving accounts while the server and the disk come and go.
NextDisk ==
    \/ \E v \in DbStates : SetDb(v)
    \/ Restart
    \/ CheckAndSync
    \/ DeleteUser("alice")
    \/ \E u \in {"alice", "bob"}, p \in Passwords, d \in DiskStates :
          SaveUserOnDisk(u, "a@x", p, d)

SpecDisk == Init /\ [][NextDisk]_vars

\* Sessions of one account created with durations below, at and above the
\* renewal: create_session(username, duration) takes any duration.
ShortSessionDuration == 2
LongSessionDuration == 7200
SessionDurations ==
    {ShortSessionDuration, DefaultSessionDuration, LongSessionDuration}

NextDuration ==
    \/ \E v \in {"up", "down"} : SetDb(v)
    \/ Tick(10)
    \/ \E d \in SessionDurations : CreateSession("alice", d)
    \/ \E t \in Issued : ValidateSession("alice", t)

SpecDuration == InitIn({"up", "down"}) /\ [][NextDuration]_vars

\* One account that is saved and deleted while the server comes and goes.
NextDelete ==
    \/ \E v \in {"up", "down"} : SetDb(v)
    \/ Restart
    \/ CheckAndSync
    \/ \E p \in Passwords : SaveUser("alice", "a@x", p)
    \/ DeleteUser("alice")

SpecDelete == InitIn({"up", "down"}) /\ [][NextDelete]_vars

\* Reset tokens of one account, generated with and without the server and
\* carried to the primary by later passes.
NextMail ==
    \/ \E v \in {"up", "down"} : SetDb(v)
    \/ Restart
    \/ CheckAndSync
    \/ SyncAllData
    \/ SaveUser("alice", "a@x", "pw1")
    \/ GenerateResetToken("alice")

SpecMail == InitIn({"up", "down"}) /\ [][NextMail]_vars

\* sync_all_data statement by statement in two threads, with every way out
\* of a pass, next to manager calls that trigger passes of their own.
NextFlag ==
    \/ \E v \in DbStates : SetDb(v)
    \/ Restart
    \/ \E t \in Threads : SyncEnter(t)
    \/ \E t \in Threads : SyncBegin(t)
    \/ \E t \in Threads : SyncPass(t)
    \/ \E t \in Threads, k \in 0..4 : SyncRaise(t, k)
    \/ CheckAndSync
    \/ SaveUser("alice", "a@x", "pw1")

SpecFlag == Init /\ [][NextFlag]_vars

\* Sessions of one account.
NextSession ==
    \/ \E v \in DbStates : SetDb(v)
    \/ Restart
    \/ Tick(SessionRenewal)
    \/ CheckAndSync
    \/ CreateSession("alice", DefaultSessionDuration)
    \/ \E t \in Issued : ValidateSession("alice", t)
    \/ \E t \in Issued \cup {NoToken} : EndSession("alice", t)

SpecSession == Init /\ [][NextSession]_vars

\* Password reset of one account.
NextReset ==
    \/ \E v \in DbStates : SetDb(v)
    \/ Restart
    \/ Tick(ResetExpiryHours * SecondsPerHour)
    \/ CheckAndSync
    \/ SaveUser("alice", "a@x", "pw1")
    \/ \E x \in {"alice", "a@x"} : GenerateResetToken(x)
    \/ \E t \in Issued : ValidateResetToken(t)
    \/ \E t \in Issued : ResetPassword(t, "pw2")

SpecReset == Init /\ [][NextReset]_vars

\* All four managers on one account.
Next ==
    \/ \E v \in {"up", "down"} : SetDb(v)
    \/ Restart
    \/ SaveUser("alice", "a@x", "pw1")
    \/ UpdateUserPassword("alice", "pw2")
    \/ CreateSession("alice", DefaultSessionDuration)
    \/ GenerateVerificationToken("alice", "a@x")
    \/ \E t \in Issued : VerifyEmail("alice", t)
    \/ GenerateResetToken("alice")

Spec == Init /\ [][Next]_vars

\* ---------------------------------------------------------- properties
PrimaryUp == is_database_available(Cur) /\ CanExec(Cur)

\* C1: after check_and_sync, every entry whose push succeeded in that call
\* is recorded in the ledger and present in the primary store under its key
\* with the values of the secondary store.
C1_PushedEntriesInPrimary ==
    ret.op = "check_and_sync" =>
        /\ \A u \in ret.pushed.synced_users :
            /\ u \in sync_tracking.synced_users
            /\ \E r \in dbUsers : FromRow({r}) = UJGet(users_json, u)
        /\ \A u \in ret.pushed.synced_sessions :
            /\ u \in sync_tracking.synced_sessions
            /\ \E r \in dbSessions :
                /\ r.username = u
                /\ r.token = sessions_json[u].token
                /\ r.expiry = sessions_json[u].expiry
        /\ \A u \in ret.pushed.synced_verification :
            /\ u \in sync_tracking.synced_verification
            /\ \E r \in dbVerification :
                /\ r.username = u
                /\ r.token = verification_json[u].token
        /\ \A t \in ret.pushed.synced_reset_tokens :
            /\ t \in sync_tracking.synced_reset_tokens
            /\ \E r \in dbResetTokens : r.token = t

\* C2: after a reconcile pass that ran with the primary reachable, every
\* key of the ledger whose entry is in users.json, or unexpired in
\* sessions.json, has had that entry, as it now stands, pushed to the primary.
C2_LedgerKeyMeansLatestPushed ==
    (ret.op \in SyncOps /\ ret.ran /\ ret.reach) =>
        /\ \A u \in sync_tracking.synced_users :
            UJHas(users_json, u) =>
                /\ u \in DOMAIN hist.last_push.users
                /\ hist.last_push.users[u] = UJGet(users_json, u)
        /\ \A u \in sync_tracking.synced_sessions :
            (u \in DOMAIN sessions_json /\ sessions_json[u].expiry > now) =>
                /\ u \in DOMAIN hist.last_push.sessions
                /\ hist.last_push.sessions[u] = sessions_json[u]

\* C3: a reset token for which reset_password has returned true is refused
\* by validate_reset_token in every later state.
C3_UsedTokenNeverValidates ==
    \A t \in hist.used : validate_reset_token(Cur, t).rv = NoReset

\* C4: a session that end_session(username, token) has ended with a true
\* result is refused by validate_session in every later state, until
\* create_session is called for the username again.
C4_EndedSessionNeverValidates ==
    \A x \in hist.ended : ~validate_session(Cur, x[1], x[2]).rv

\* C5: once update_user_password has returned true for an account, the new
\* password validates and no other password does, in every later state.
C5_OnePasswordPerUser ==
    \A u \in Usernames :
        hist.pw[u] # "" =>
            /\ validate_user(Cur, u, hist.pw[u])
            /\ \A p \in Passwords \ {hist.pw[u]} : ~validate_user(Cur, u, p)

\* The secondary store holds a value for the key that differs from the row
\* of the primary.
StaleUser(u) ==
    /\ UJHas(users_json, u)
    /\ \E r \in dbUsers : r.username = u /\ FromRow({r}) # UJGet(users_json, u)

StaleSession(u) ==
    /\ u \in DOMAIN sessions_json
    /\ \E r \in dbSessions :
        /\ r.username = u /\ r.expiry > now
        /\ r.token # sessions_json[u].token

WroteOffline(op) == ret.op = op /\ fallback_to_json

\* An account with this username, or this username or address, exists in
\* one of the stores.
AccountExists(u) ==
    UJHas(users_json, u) \/ \E r \in dbUsers : r.username = u

AccountKnown(x) ==
    \/ AccountExists(x)
    \/ \E r \in dbUsers : r.email = x
    \/ \E i \in 1..Len(users_json) : users_json[i].email = x

\* C7: a write of one of the four managers that found the primary
\* unavailable succeeded, and the matching read returns what it wrote
\* (update_user_password and generate_reset_token: for an existing account).
C7_OfflineWriteReadsBack ==
    /\ WroteOffline("save_user") =>
        ret.rv = TRUE /\ validate_user(Cur, ret.user, ret.pw)
    /\ (WroteOffline("update_user_password") /\ AccountExists(ret.user)) =>
        ret.rv = TRUE /\ validate_user(Cur, ret.user, ret.pw)
    /\ WroteOffline("create_session") =>
        /\ ret.rv = ret.tok
        /\ ret.user \in DOMAIN sessions_json
        /\ sessions_json[ret.user].expiry > now =>
               validate_session(Cur, ret.user, ret.tok).rv = TRUE
    /\ WroteOffline("generate_verification_token") =>
        /\ ret.rv = ret.tok
        /\ ret.user \in DOMAIN verification_json
        /\ verification_json[ret.user].expiry > now =>
               verify_email(Cur, ret.user, ret.tok).rv = TRUE
    /\ (WroteOffline("generate_reset_token") /\ AccountKnown(ret.user)) =>
        /\ ret.rv = ret.tok
        /\ ret.tok \in DOMAIN reset_tokens_json
        /\ reset_tokens_json[ret.tok].expiry > now =>
               validate_reset_token(Cur, ret.tok).rv # NoReset

\* C8: while the primary is available and holds no record for a key, the
\* read returns the answer of the secondary store: the user of users.json,
\* and true/the token data for an unexpired session, verification token or
\* reset token of the JSON files.
C8_ReadFallsBackToSecondary ==
    PrimaryUp =>
        /\ \A u \in Usernames :
            (~\E r \in dbUsers : r.username = u) =>
                get_user(Cur, u) = UJGet(users_json, u)
        /\ \A u \in DOMAIN sessions_json :
            (/\ sessions_json[u].expiry > now
             /\ ~\E r \in dbSessions :
                    r.username = u /\ r.token = sessions_json[u].token) =>
                validate_session(Cur, u, sessions_json[u].token).rv = TRUE
        /\ \A u \in DOMAIN verification_json :
            (/\ verification_json[u].expiry > now
             /\ ~verification_json[u].verified
             /\ ~\E r \in dbVerification :
                    r.token = verification_json[u].token) =>
                verify_email(Cur, u, verification_json[u].token).rv = TRUE
        /\ \A t \in DOMAIN reset_tokens_json :
            (/\ reset_tokens_json[t].expiry > now
             /\ ~\E r \in dbResetTokens : r.token = t) =>
                validate_reset_token(Cur, t).rv = ResetData(reset_tokens_json[t])

\* The tables of the primary and the key sets of the ledger.
Primary == <<dbUsers, dbSessions, dbVerification, dbResetTokens>>

LedgerKeys == [d \in DataTypes |-> sync_tracking[d]]

C10_LastStatusIsProbed ==
    ret.op = "check_and_sync" => last_db_status = ret.probed

\* C11: a check_and_sync call that directly follows a check_and_sync call of
\* the same process that probed the primary available, and that starts
\* within PeriodicInterval seconds of last_sync, starts no reconcile pass and
\* pushes nothing.
C11_NoPassWhenStillOnline ==
    (ret.op = "check_and_sync" /\ ret.prev /\ ret.recent) =>
        ~ret.ran /\ ret.pushed = NoKeys

\* C12: a sync_all_data pass in which the push of some entry failed returns
\* false.
C12_FailedPushFailsPass ==
    (ret.op = "sync_all_data" /\ ret.ran /\ ret.failed # NoKeys) =>
        ret.rv = FALSE

\* The keys of the JSON file of an entity type, and the entries that the
\* loops of the last pass reached: pushed, failed or found expired.
Keys(d) ==
    IF d = "synced_users"
    THEN {users_json[i].username : i \in 1..Len(users_json)}
    ELSE IF d = "synced_sessions" THEN DOMAIN sessions_json
    ELSE IF d = "synced_verification" THEN DOMAIN verification_json
    ELSE DOMAIN reset_tokens_json

Handled(d) == ret.pushed[d] \cup ret.failed[d] \cup ret.skipped[d]

\* C13: a user is in the ledger only after a push of it succeeded, in any
\* pass, also one started from inside a manager call.  After a sync_all_data
\* pass, no entry whose push failed is in the ledger; every entry of the four
\* JSON files is in the ledger or was attempted and failed in this pass; and
\* when the pass directly follows another one, it reached every entry that
\* failed in that one and is still in its file.
C13_FailedPushStaysPending ==
    /\ sync_tracking.synced_users \subseteq DOMAIN hist.last_push.users
    /\ (ret.op = "sync_all_data" /\ ret.ran) =>
        \A d \in DataTypes :
            /\ ret.failed[d] \cap sync_tracking[d] = {}
            /\ Keys(d) \subseteq (sync_tracking[d] \cup ret.failed[d])
            /\ hist.first.ran =>
                   (hist.first.failed[d] \cap Keys(d)) \subseteq Handled(d)

\* C13 witness: the second of two passes in a row has pushed a user whose
\* push failed in the first, and the first went on to the sessions after
\* that failure.
C13_Witness ==
    /\ ret.op = "sync_all_data" /\ ret.ran /\ hist.first.ran
    /\ hist.first.failed.synced_users \cap ret.pushed.synced_users # {}
    /\ Handled("synced_sessions") # {}
    /\ hist.first.failed.synced_sessions \cup hist.first.pushed.synced_sessions # {}

\* A step that is a sync_all_data call which ran a pass: the call is what
\* ret describes after the step, and the step is not one of the environment.
PassStep ==
    ret'.op = "sync_all_data" /\ ret'.ran /\ db' = db /\ now' = now

\* C14: a sync_all_data pass adds to the ledger every session, verification
\* token and reset token of the JSON files that the ledger lacked and whose
\* expiry is not after the current time, and leaves the rows of the primary
\* with that token as they were.
C14_ExpiredMarkedNotPushed ==
    [][PassStep =>
        /\ \A u \in DOMAIN sessions_json :
            (/\ u \notin sync_tracking.synced_sessions
             /\ sessions_json[u].expiry <= now) =>
                /\ u \in sync_tracking'.synced_sessions
                /\ {r \in dbSessions' : r.token = sessions_json[u].token}
                       = {r \in dbSessions : r.token = sessions_json[u].token}
        /\ \A u \in DOMAIN verification_json :
            (/\ u \notin sync_tracking.synced_verification
             /\ verification_json[u].expiry <= now) =>
                /\ u \in sync_tracking'.synced_verification
                /\ {r \in dbVerification' : r.token = verification_json[u].token}
                       = {r \in dbVerification :
                             r.token = verification_json[u].token}
        /\ \A t \in DOMAIN reset_tokens_json :
            (/\ t \notin sync_tracking.synced_reset_tokens
             /\ reset_tokens_json[t].expiry <= now) =>
                /\ t \in sync_tracking'.synced_reset_tokens
                /\ {r \in dbResetTokens' : r.token = t}
                       = {r \in dbResetTokens : r.token = t}
      ]_vars

\* C14 witness: with the primary available, a pass has found a session and
\* a verification token expired and has marked them, and the primary has no
\* row for either.
C14_Witness ==
    /\ ret.op = "sync_all_data" /\ ret.ran /\ ret.reach /\ PrimaryUp
    /\ ret.skipped.synced_sessions # {}
    /\ ret.skipped.synced_verification # {}
    /\ ret.skipped.synced_sessions \subseteq sync_tracking.synced_sessions
    /\ dbSessions = {} /\ dbVerification = {}

ClearStep ==
    ret'.op = "clear_sync_tracking" /\ db' = db /\ now' = now

\* C16: no step other than a clear_sync_tracking call takes a key out of
\* synced_users, synced_sessions, synced_verification or
\* synced_reset_tokens.
C16_LedgerMonotonic ==
    [][~ClearStep =>
        \A d \in DataTypes : sync_tracking[d] \subseteq sync_tracking'[d]]_vars

\* C16 witness: delete_user has removed from users.json an account whose
\* username is in the ledger, and the username is still there.
C16_Witness ==
    /\ ret.op = "delete_user" /\ ret.rv = TRUE
    /\ ~UJHas(users_json, "alice")
    /\ "alice" \in sync_tracking.synced_users
    /\ sync_tracking.synced_sessions # {}

C18_FailedValidationDeletes ==
    (ret.op = "validate_session" /\ ret.rv = FALSE) => ~ret.left

\* C18, on the servers' side only and with the server answering: the failed
\* validation leaves no row of the username in sessions.
C18_PrimaryDeletes ==
    (ret.op = "validate_session" /\ ret.rv = FALSE /\ ret.store = "db"
        /\ PrimaryUp) => ~ret.left

\* C18, in sessions.json: the failed validation leaves no entry of the
\* username.
C18_JsonDeletes ==
    (ret.op = "validate_session" /\ ret.rv = FALSE /\ ret.store = "json")
        => ~ret.left

\* The tokens that validate_session would accept for the username now.
Validating(u) == {t \in Issued : validate_session(Cur, u, t).rv = TRUE}

\* C19: at any time at most one session token validates for a username, so
\* once create_session has returned a new token, a token returned earlier
\* for the same username no longer validates.
C19_OneActiveSession ==
    \A u \in Usernames : Cardinality(Validating(u)) <= 1

\* C19, with sessions.json answering: at most one token validates.
C19_OneActiveSessionJson ==
    ~is_database_available(Cur) =>
        \A u \in Usernames : Cardinality(Validating(u)) <= 1

\* C20, before verification: verify_email of a user that is not verified
\* returns false for a token that is not on record and, when the store
\* answers, true for the token on record.
C20_BeforeVerification ==
    (ret.op = "verify_email" /\ ~ret.was) =>
        /\ ~ret.good => ret.rv = FALSE
        /\ (ret.good /\ (ret.store = "json" \/ ret.reach)) => ret.rv = TRUE

\* C20, after verification: verify_email of a verified user returns true
\* whatever the string.
C20_VerifiedAcceptsAny ==
    (ret.op = "verify_email" /\ ret.was) => ret.rv = TRUE

\* C20, after verification, for the token on record only.
C20_VerifiedAcceptsOwnToken ==
    (ret.op = "verify_email" /\ ret.was /\ ret.good) => ret.rv = TRUE

\* C20: verify_email looks at the verified flag before the token: a user
\* that is not verified gets false for a wrong token and true for the
\* right one, and a verified user gets true for any string.
C20_VerifiedFlagFirst ==
    C20_BeforeVerification /\ C20_VerifiedAcceptsAny

\* C21: a username for which verify_email has returned true, and for which
\* no verification token was generated since, is verified: is_verified
\* returns true for it in every later state.
C21_VerifiedStays ==
    \A u \in hist.verified : is_verified(Cur, u).rv = TRUE

\* C21, in the states where the primary answers: the verified user stays
\* verified.
C21_VerifiedStaysOnPrimary ==
    PrimaryUp => \A u \in hist.verified : is_verified(Cur, u).rv = TRUE

\* C21, in a process that never had the primary: the verified user stays
\* verified.
C21_VerifiedStaysInJson ==
    (dbVerification = {} /\ ~is_database_available(Cur)) =>
        \A u \in hist.verified : is_verified(Cur, u).rv = TRUE

\* The tokens that verify_email would accept for the username now.
Verifying(u) == {t \in Issued : verify_email(Cur, u, t).rv = TRUE}

\* C22: a username has at most one live verification record: at most one
\* token verifies it, so once a new token has been issued for the username
\* the token issued before no longer does.
C22_OneLiveVerification ==
    \A u \in Usernames : Cardinality(Verifying(u)) <= 1

\* C22, with verification.json answering: at most one token verifies.
C22_OneLiveVerificationJson ==
    ~is_database_available(Cur) =>
        \A u \in Usernames : Cardinality(Verifying(u)) <= 1

\* C23: when reset_password was called with a token that validates and
\* returned false, because update_user_password failed, the token is still
\* there: validate_reset_token succeeds for it after the call.
C23_FailedResetKeepsToken ==
    (ret.op = "reset_password" /\ ret.good /\ ret.rv = FALSE) =>
        validate_reset_token(Cur, ret.tok).rv # NoReset

\* C23 witness: reset_password has failed on a valid token whose account is
\* gone from the store that answers, and the token is still on record.
C23_Witness ==
    /\ ret.op = "reset_password" /\ ret.good /\ ret.rv = FALSE
    /\ get_user(Cur, ret.user) = NoUser
    /\ ret.tok \in DOMAIN reset_tokens_json

\* The reset token is on record and its expiry has passed in every record of
\* it.
ResetExpired(t) ==
    /\ t \in DOMAIN reset_tokens_json \/ \E r \in dbResetTokens : r.token = t
    /\ t \in DOMAIN reset_tokens_json => reset_tokens_json[t].expiry <= now
    /\ \A r \in dbResetTokens : r.token = t => r.expiry <= now

\* C24: validate_reset_token called on a token whose expiry has passed
\* returns None and leaves no entry of that token in reset_tokens.json.
C24_ExpiredResetRemoved ==
    \A t \in Issued :
        ResetExpired(t) =>
            LET S == validate_reset_token(Cur, t)
            IN  S.rv = NoReset /\ t \notin DOMAIN S.reset_tokens_json

\* C24, the returned value alone: an expired token gets None.
C24_ExpiredResetRejected ==
    \A t \in Issued :
        ResetExpired(t) => validate_reset_token(Cur, t).rv = NoReset

\* C24, with reset_tokens.json answering: the expired token gets None and
\* its entry is removed.
C24_ExpiredResetRemovedJson ==
    ~is_database_available(Cur) =>
        \A t \in Issued :
            ResetExpired(t) =>
                LET S == validate_reset_token(Cur, t)
                IN  S.rv = NoReset /\ t \notin DOMAIN S.reset_tokens_json

\* The two stores and the ledger of a state are those of now.
SameStores(S) ==
    /\ <<S.dbUsers, S.dbSessions, S.dbVerification, S.dbResetTokens>>
           = <<dbUsers, dbSessions, dbVerification, dbResetTokens>>
    /\ <<S.users_json, S.sessions_json, S.verification_json,
         S.reset_tokens_json>>
           = <<users_json, sessions_json, verification_json,
               reset_tokens_json>>
    /\ S.sync_tracking = sync_tracking

\* C25: validate_reset_token changes nothing: after it returns, both stores
\* and the ledger hold what they held before the call, whatever the token.
C25_ValidationNeverMutates ==
    \A t \in 0..MaxTokens : SameStores(validate_reset_token(Cur, t))

\* C25, for tokens that are valid or unknown: nothing changes.
C25_ValidationOfLiveOrUnknown ==
    \A t \in 0..MaxTokens :
        ~ResetExpired(t) => SameStores(validate_reset_token(Cur, t))

\* The user is stored under exactly this username with this password in the
\* store that answers a lookup of the name: the table users when the primary
\* answers and has a row of the name in some casing, else users.json.
StoredAs(U, p) ==
    IF PrimaryUp /\ \E r \in dbUsers : Lower(r.username) = Lower(U)
    THEN \E r \in dbUsers : r.username = U /\ r.password_hash = Hash(p)
    ELSE UJHas(users_json, U) /\ UJGet(users_json, U).password = Hash(p)

\* C26: for a user stored under the username U, validate_user_case_insensitive
\* called with any case variant of U and the user's password returns
\* (true, U), whichever store answers.
C26_CaseInsensitiveLogin ==
    \A U \in CaseVariants, p \in Passwords :
        StoredAs(U, p) =>
            \A x \in CaseVariants :
                validate_user_case_insensitive(Cur, x, p) = <<TRUE, U>>

\* C26, while no two usernames of users.json differ in case only.
C26_CaseInsensitiveLoginOneCasing ==
    (\A i, j \in 1..Len(users_json) :
        Lower(users_json[i].username) = Lower(users_json[j].username)
            => i = j) =>
        C26_CaseInsensitiveLogin

\* C27: the username returned by validate_user_case_insensitive tells an
\* unknown user from a wrong password: (false, None) for a username that the
\* lookup does not find, (false, stored username) for one it finds with
\* another password.
C27_UnknownUserOrWrongPassword ==
    \A x \in CaseVariants \cup {"bob"}, p \in Passwords :
        LET user == get_user_case_insensitive(Cur, x)
            res == validate_user_case_insensitive(Cur, x, p)
        IN  /\ user = NoUser => res = <<FALSE, NoName>>
            /\ (user # NoUser /\ user.password # Hash(p)) =>
                   res = <<FALSE, user.username>>

\* C27, the unknown user alone: the result is (false, None).
C27_UnknownUser ==
    \A x \in CaseVariants \cup {"bob"}, p \in Passwords :
        get_user_case_insensitive(Cur, x) = NoUser =>
            validate_user_case_insensitive(Cur, x, p) = <<FALSE, NoName>>

\* What the code does instead: every false result carries None.
C27_FalseCarriesNone ==
    \A x \in CaseVariants \cup {"bob"}, p \in Passwords :
        LET res == validate_user_case_insensitive(Cur, x, p)
        IN  res[1] = FALSE => res[2] = NoName

\* C28: a token generation that called send_verification_email or
\* send_reset_email did so with the primary available: is_database_available()
\* holds where the call ends, which is where the email is sent.
C28_EmailOnlyWhenAvailable ==
    (ret.op \in {"generate_verification_token", "generate_reset_token"}
        /\ ret.sent) => is_database_available(Cur)

\* C28, for generate_reset_token alone.
C28_ResetEmailOnlyWhenAvailable ==
    (ret.op = "generate_reset_token" /\ ret.sent) => is_database_available(Cur)

\* What generate_verification_token does instead: it sends the email exactly
\* when it stored the token in verification.json.
C28_VerificationEmailWithJsonWrite ==
    ret.op = "generate_verification_token" =>
        (ret.sent <=>
            /\ ret.user \in DOMAIN verification_json
            /\ verification_json[ret.user].token = ret.tok)

\* C29: within one process, whenever the server is reachable, probes and
\* queries lead to is_database_available() being true, unless the server
\* goes away again first.
C29_AvailableAgain ==
    (db = "up") ~> (is_database_available(Cur) \/ db # "up")

\* What the code does instead: within one process fallback_to_json, once
\* set, stays set, so is_database_available() stays false.
C29_FallbackIsSticky ==
    [][fallback_to_json => fallback_to_json']_vars

\* C30: a save_user that goes to users.json returns True when the write
\* succeeds, and returns False, without raising, when the write fails.
C30_SaveUserReportsJsonWrite ==
    (ret.op = "save_user" /\ ret.store = "json")
        => /\ ~ret.raised
           /\ ret.rv = (ret.disk = "ok")

\* The first half alone: when the write of users.json succeeds, save_user
\* returns True and the account is in users.json.
C30_TrueWhenJsonWritten ==
    (ret.op = "save_user" /\ ret.store = "json" /\ ret.disk = "ok")
        => /\ ~ret.raised
           /\ ret.rv = TRUE
           /\ UJHas(users_json, ret.user)

\* What the code does with a failed write: the exception leaves save_user,
\* and users.json is not changed.
C30_FailedJsonWriteRaises ==
    [][(ret'.op = "save_user" /\ ret'.store = "json" /\ ret'.disk = "error"
        /\ db' = db /\ now' = now)
          => (ret'.raised /\ users_json' = users_json)]_vars

\* The stored records that own username u or address e.
OwnersInPrimary(u, e) == {r \in dbUsers : r.username = u \/ r.email = e}

OwnersInJson(u, e) ==
    {users_json[i] : i \in {j \in 1..Len(users_json) :
        users_json[j].username = u \/ users_json[j].email = e}}

Taken(u, e) ==
    \/ get_user(Cur, u) # NoUser
    \/ get_user_by_email(Cur, e) # NoUser

\* C31: save_user for a username or an address that already belongs to a
\* stored user returns False and leaves the existing records of both stores
\* as they were.
C31_DuplicateNotSaved ==
    \A u \in Usernames, e \in {"a@x", "b@x"} :
        Taken(u, e) =>
            LET S == save_user(Cur, u, e, "pw2")
            IN  /\ S.rv = FALSE
                /\ OwnersInPrimary(u, e) \subseteq S.dbUsers
                /\ OwnersInJson(u, e) \subseteq
                     {S.users_json[i] : i \in 1..Len(S.users_json)}

\* What the code does instead: save_user returns True for every input.
C31_SaveUserAlwaysTrue ==
    \A u \in Usernames, e \in {"a@x", "b@x"} :
        save_user(Cur, u, e, "pw2").rv = TRUE

\* C32: a validate_session call that returns true leaves the session, in the
\* store that answers, an expiry at least as late as the one it had before
\* the call, whatever duration create_session was given.
C32_ValidationNeverShortens ==
    \A t \in Issued :
        LET S == validate_session(Cur, "alice", t)
        IN  S.rv = TRUE =>
                AnsweredExpiry(Cur, S, "alice", t)
                    >= AnsweredExpiry(Cur, Cur, "alice", t)

\* What the code does: the new expiry is the time of the call plus 3600, so
\* a successful validation shortens exactly the sessions that had more than
\* 3600 seconds left.
C32_ShortensOnlyLongSessions ==
    \A t \in Issued :
        LET S == validate_session(Cur, "alice", t)
            old == AnsweredExpiry(Cur, Cur, "alice", t)
            new == AnsweredExpiry(Cur, S, "alice", t)
        IN  S.rv = TRUE =>
                /\ new = now + SessionRenewal
                /\ new < old <=> old > now + SessionRenewal

\* C33: cleanup_expired_tokens removes no verification record whose verified
\* flag is true, from the primary or from verification.json.
C33_CleanupKeepsVerified ==
    LET S == cleanup_expired_verification_tokens(Cur)
    IN  /\ {r \in dbVerification : r.verified} \subseteq S.dbVerification
        /\ \A u \in DOMAIN verification_json :
               verification_json[u].verified
                   => u \in DOMAIN S.verification_json

\* What the code does: the sweep looks at the expiry alone.  It removes
\* every expired record of the store it works on, verified or not, and no
\* other record.
C33_CleanupByExpiryAlone ==
    LET S == cleanup_expired_verification_tokens(Cur)
    IN  /\ (is_database_available(Cur) /\ CanExec(Cur)) =>
               S.dbVerification = {r \in dbVerification : r.expiry >= now}
        /\ ~is_database_available(Cur) =>
               DOMAIN S.verification_json =
                   {u \in DOMAIN verification_json :
                       verification_json[u].expiry > now}

\* C34: a poll of the connectivity monitor leaves is_connected and
\* fallback_to_json, on which is_database_available() depends, as they were,
\* in every state the entity managers and the server can bring about.
C34_PollingIsPassive ==
    LET S == _check_database_signal(Cur)
    IN  /\ S.is_connected = is_connected
        /\ S.fallback_to_json = fallback_to_json

\* What the code does: a poll that finds the server gone sets
\* fallback_to_json; nothing else of the DatabaseManager or of the stores
\* changes, and a poll of a manager that is already unavailable changes
\* nothing.
C34_PollOnlySetsFallback ==
    LET S == _check_database_signal(Cur)
    IN  /\ S.is_connected = is_connected
        /\ SameStores(S)
        /\ S.fallback_to_json # fallback_to_json
               <=> (is_database_available(Cur) /\ db = "down")
        /\ S.fallback_to_json # fallback_to_json => S.fallback_to_json

PrimaryHolds(tbl, u, h) ==
    \E r \in tbl : r.username = u /\ r.password_hash = h

\* The primary holds for u the password of an update_user_password that
\* came after the save_user whose entry of users.json is still unmarked in
\* the ledger.
NewerInPrimary(u) ==
    /\ hist.pw[u] # ""
    /\ PrimaryHolds(dbUsers, u, Hash(hist.pw[u]))
    /\ UJHas(users_json, u)
    /\ UJGet(users_json, u).password # Hash(hist.pw[u])
    /\ u \notin sync_tracking.synced_users

SyncStep ==
    ret'.op \in SyncOps /\ db' = db /\ now' = now

\* C35: a check_and_sync or sync_all_data call leaves in place a password
\* that the primary received after the pending entry of users.json for the
\* same username was written.
C35_PassKeepsNewerPrimary ==
    [][SyncStep =>
          \A u \in Usernames :
              NewerInPrimary(u)
                  => PrimaryHolds(dbUsers', u, Hash(hist.pw[u]))]_vars

\* What the code does: a pass changes the row of a username only by pushing
\* its unmarked entry of users.json, and a push that succeeds makes the row
\* equal to that entry, whichever of the two is older.
C35_PassPushesPendingEntry ==
    [][SyncStep =>
          \A u \in Usernames :
              LET before == {r \in dbUsers : r.username = u}
                  after == {r \in dbUsers' : r.username = u}
                  entry == UJGet(users_json, u)
              IN  after # before =>
                      /\ UJHas(users_json, u)
                      /\ u \notin sync_tracking.synced_users
                      /\ \A r \in after :
                             r.password_hash = entry.password]_vars

\* validate_session(u, good) right after validate_session(u, wrong) has
\* returned false, for a session that validates now.
AfterWrongToken(u, good, wrong) ==
    validate_session(validate_session(Cur, u, wrong), u, good).rv

WrongFor(u, good) ==
    {w \in 0..MaxTokens :
        w # good /\ validate_session(Cur, u, w).rv = FALSE}

\* C36: a validate_session call with a wrong token that returns false does
\* not end the session: the right token still validates after it, whichever
\* store answers.
C36_WrongTokenKeepsSession ==
    \A good \in Validating("alice") : \A wrong \in WrongFor("alice", good) :
        AfterWrongToken("alice", good, wrong) = TRUE

\* C36 with the primary answering: the row stays and the right token still
\* validates.
C36_WrongTokenKeepsSessionOnPrimary ==
    is_database_available(Cur) =>
        \A good \in Validating("alice") :
            \A wrong \in WrongFor("alice", good) :
                AfterWrongToken("alice", good, wrong) = TRUE

\* What the code does with sessions.json answering: the wrong token removes
\* the entry of the username, and the right token no longer validates.
C36_WrongTokenEndsSessionInJson ==
    ~is_database_available(Cur) =>
        \A good \in Validating("alice") :
            \A wrong \in WrongFor("alice", good) :
                /\ AfterWrongToken("alice", good, wrong) = FALSE
                /\ "alice" \notin DOMAIN
                       validate_session(Cur, "alice", wrong).sessions_json

\* C37: after delete_user(username) has returned true, get_user(username)
\* finds no user in any later state, until save_user is called for the
\* username again.
C37_DeletedStaysDeleted ==
    \A u \in hist.deleted : get_user(Cur, u) = NoUser

\* What the code does: a delete_user that returns true has removed the
\* username from the one store it worked on, the primary or users.json.
C37_DeleteClearsOneStore ==
    (ret.op = "delete_user" /\ ret.rv = TRUE) =>
        \/ ~\E r \in dbUsers : SameName(r.username, ret.user)
        \/ ~UJHas(users_json, ret.user)

\* The reset tokens of reset_tokens.json that are in the primary and in the
\* ledger: a pass has carried them over.
SyncedResetTokens(rows, ledger) ==
    {t \in DOMAIN reset_tokens_json :
        /\ t \in ledger.synced_reset_tokens
        /\ \E r \in rows : r.token = t}

\* C38: the call in which the sync of a reset token of reset_tokens.json
\* occurs sends the reset email (ret.sent: the call sent an email).
C38_SyncSendsResetEmail ==
    [][(SyncedResetTokens(dbResetTokens', sync_tracking')
            \ SyncedResetTokens(dbResetTokens, sync_tracking)) # {}
          => ret'.sent]_vars

\* What the code does: only generate_reset_token sends a reset email, in
\* the call that generates the token; no check_and_sync, sync_all_data or
\* other call sends one.
C38_OnlyGenerateMails ==
    ret.sent => ret.op = "generate_reset_token"

\* A token that generate_reset_token stores in reset_tokens.json while the
\* manager is unavailable is not mailed by that call.
C38_OfflineTokenNotMailed ==
    (ret.op = "generate_reset_token" /\ ret.rv # NoToken
        /\ ~is_database_available(Cur) /\ ret.rv \in DOMAIN reset_tokens_json
        /\ ret.rv \notin sync_tracking.synced_reset_tokens)
            => ~ret.sent

\* No sync_all_data call is between its assignment sync_in_progress = True
\* and the end of its pass.
NoPassRunning == \A t \in Threads : pc[t] # "running"

\* C39: sync_in_progress is false whenever no pass is executing, whichever
\* way the passes before ended, so the flag never keeps a later
\* sync_all_data call from running a pass on an available primary.
C39_FlagFalseWhenIdle ==
    NoPassRunning =>
        /\ ~sync_in_progress
        /\ is_database_available(Cur) => sync_all_data(Cur).ran

\* C39 witness: a pass has just ended by an exception, none is running and
\* the primary is available.
C39_Witness ==
    /\ ret.op = "sync_all_data" /\ "raised" \in DOMAIN ret /\ ret.raised
    /\ NoPassRunning /\ ~sync_in_progress
    /\ is_database_available(Cur)

====
